---- MODULE Spec2Model ----
(***************************************************************************)
(* Model of fixedpointmath/fixed_point_math.py: the six generic numeric    *)
(* operations clip, exp, isclose, maximum, minimum and sqrt over the three *)
(* variants FixedPoint, int and float.                                     *)
(*                                                                         *)
(* A number is a record [variant, kind, sv].  kind is one of "finite",     *)
(* "inf", "neginf", "nan" (int has only "finite").  For FixedPoint sv is   *)
(* the scaled integer (value * Scale); a float is carried on the same grid *)
(* (sv / Scale); for int sv is the integer itself.                         *)
(*                                                                         *)
(* The outcome of a call is a record [tag, val, src, exc, b]:              *)
(*   tag = "value": val is the number returned and src the index of the    *)
(*                  argument the returned object was taken from (0 when    *)
(*                  it was computed);                                      *)
(*   tag = "bool":  b is the boolean returned;                             *)
(*   tag = "raise": exc is the name of the exception raised.               *)
(***************************************************************************)
EXTENDS Integers, Sequences, FiniteSets, TLC

VARIABLES pc, op, args, result, backend_log

vars == <<pc, op, args, result, backend_log>>

\* ---------------------------------------------------------------- bounds
MaxSV == 2      \* finite numbers have sv in -MaxSV .. MaxSV
MaxArgs == 3    \* longest *args list given to maximum / minimum
Scale == 2      \* stands for 10**decimal_places of the fixed-point type
ExpTerms == 4   \* terms of the series used by the exponential stand-in

\* ---------------------------------------------------------------- values
Variants == {"FixedPoint", "int", "float"}

Num(variant, kind, sv) == [variant |-> variant, kind |-> kind, sv |-> sv]

Finite(variant, sv) == Num(variant, "finite", sv)

NaN(variant) == Num(variant, "nan", 0)

PosInf(variant) == Num(variant, "inf", 0)

NegInf(variant) == Num(variant, "neginf", 0)

NoVal == Num("none", "none", 0)

SVRange == (0 - MaxSV) .. MaxSV

Specials(variant) == {NaN(variant), PosInf(variant), NegInf(variant)}

FixedPointVals == {Finite("FixedPoint", s) : s \in SVRange} \cup Specials("FixedPoint")

IntVals == {Finite("int", s) : s \in SVRange}

FloatVals == {Finite("float", s) : s \in SVRange} \cup Specials("float")

ValsOf(variant) ==
    IF variant = "FixedPoint" THEN FixedPointVals
    ELSE IF variant = "int" THEN IntVals
    ELSE FloatVals

ArgLists(variant) == UNION {[1..n -> ValsOf(variant)] : n \in 0..MaxArgs}

\* ---------------------------------------------------------------- outcomes
Returned(v, src) == [tag |-> "value", val |-> v, src |-> src, exc |-> "", b |-> FALSE]

ReturnedBool(b) == [tag |-> "bool", val |-> NoVal, src |-> 0, exc |-> "", b |-> b]

Raised(exc) == [tag |-> "raise", val |-> NoVal, src |-> 0, exc |-> exc, b |-> FALSE]

NoResult == [tag |-> "none", val |-> NoVal, src |-> 0, exc |-> "", b |-> FALSE]

\* ---------------------------------------------------------------- predicates and operators of the numeric types
isfinite(v) == v.kind = "finite"

is_nan(v) == v.kind = "nan"

\* a < b: NaN is unordered, the infinities are the absolute extremes
Lt(a, b) ==
    /\ ~is_nan(a)
    /\ ~is_nan(b)
    /\ \/ a.kind = "neginf" /\ b.kind # "neginf"
       \/ b.kind = "inf" /\ a.kind # "inf"
       \/ isfinite(a) /\ isfinite(b) /\ a.sv < b.sv

\* a == b: NaN is unequal to everything, itself included
Eq(a, b) ==
    /\ ~is_nan(a)
    /\ ~is_nan(b)
    /\ a.kind = b.kind
    /\ isfinite(a) => a.sv = b.sv

Le(a, b) == Lt(a, b) \/ Eq(a, b)

Gt(a, b) == Lt(b, a)

Ge(a, b) == Le(b, a)

\* a - b on finite numbers of one variant
Sub(a, b) == Finite(a.variant, a.sv - b.sv)

\* abs(a) on a finite number
Abs(a) == Finite(a.variant, IF a.sv < 0 THEN 0 - a.sv ELSE a.sv)

\* ---------------------------------------------------------------- conversions and the math library
\* int(f): truncation toward zero of the float carried as sv / Scale
Trunc(sv) == IF sv >= 0 THEN sv \div Scale ELSE 0 - ((0 - sv) \div Scale)

\* float(x), the conversion math.sqrt and math.exp apply to their argument
ToFloat(x) ==
    IF x.variant = "int" THEN Finite("float", x.sv * Scale)
    ELSE Num("float", x.kind, x.sv)

\* type(x)(f) for a float f: float(f), int(f) or FixedPoint(f)
Ctor(variant, f) ==
    IF variant = "float" THEN Returned(f, 0)
    ELSE IF variant = "int" THEN
        IF is_nan(f) THEN Raised("ValueError")
        ELSE IF ~isfinite(f) THEN Raised("OverflowError")
        ELSE Returned(Finite("int", Trunc(f.sv)), 0)
    ELSE Returned(Num("FixedPoint", f.kind, f.sv), 0)

\* floor of the square root of a natural number
ISqrt(n) == CHOOSE r \in 0..n : r * r <= n /\ (r + 1) * (r + 1) > n

\* math.sqrt on a float: a domain error below zero and at -inf
MathSqrt(f) ==
    IF is_nan(f) THEN Returned(f, 0)
    ELSE IF f.kind = "inf" THEN Returned(f, 0)
    ELSE IF f.kind = "neginf" THEN Raised("ValueError")
    ELSE IF f.sv < 0 THEN Raised("ValueError")
    ELSE Returned(Finite("float", ISqrt(f.sv * Scale)), 0)

RECURSIVE ExpSeries(_, _, _)
\* sum of the series terms k .. ExpTerms of e^(sv / Scale) * Scale, term being term k-1
ExpSeries(sv, k, term) ==
    IF k > ExpTerms THEN 0
    ELSE LET t == (term * sv) \div (k * Scale)
         IN  t + ExpSeries(sv, k + 1, t)

\* e^(sv / Scale) * Scale in integer arithmetic
ExpScaled(sv) ==
    IF sv >= 0 THEN Scale + ExpSeries(sv, 1, Scale)
    ELSE (Scale * Scale) \div (Scale + ExpSeries(0 - sv, 1, Scale))

\* math.exp on a float
MathExp(f) ==
    IF is_nan(f) THEN f
    ELSE IF f.kind = "inf" THEN f
    ELSE IF f.kind = "neginf" THEN Finite("float", 0)
    ELSE Finite("float", ExpScaled(f.sv))

\* FixedPointIntegerMath.exp on a raw scaled integer
FixedPointIntegerMath_exp(sv) == ExpScaled(sv)

\* ---------------------------------------------------------------- maximum and minimum
RECURSIVE BuiltinMaxScan(_, _, _)
\* the builtin max over two or more arguments: the first greatest item is kept
BuiltinMaxScan(a, i, src) ==
    IF i > Len(a) THEN src
    ELSE IF Gt(a[i], a[src]) THEN BuiltinMaxScan(a, i + 1, i)
    ELSE BuiltinMaxScan(a, i + 1, src)

RECURSIVE BuiltinMinScan(_, _, _)
\* the builtin min over two or more arguments: the first least item is kept
BuiltinMinScan(a, i, src) ==
    IF i > Len(a) THEN src
    ELSE IF Lt(a[i], a[src]) THEN BuiltinMinScan(a, i + 1, i)
    ELSE BuiltinMinScan(a, i + 1, src)

\* max(*args): a single number is taken for the iterable and is not one
BuiltinMax(a) ==
    IF Len(a) = 1 THEN Raised("TypeError")
    ELSE LET s == BuiltinMaxScan(a, 2, 1) IN Returned(a[s], s)

\* min(*args)
BuiltinMin(a) ==
    IF Len(a) = 1 THEN Raised("TypeError")
    ELSE LET s == BuiltinMinScan(a, 2, 1) IN Returned(a[s], s)

RECURSIVE MaxScan_no_nan_test(_, _, _, _)
\* MaxScan without the NaN test of the loop
MaxScan_no_nan_test(a, i, cur, src) ==
    IF i > Len(a) THEN Returned(cur, src)
    ELSE IF Ge(a[i], cur) THEN MaxScan_no_nan_test(a, i + 1, a[i], i)
    ELSE MaxScan_no_nan_test(a, i + 1, cur, src)

RECURSIVE MaxScan(_, _, _, _)
\* the FixedPoint loop of maximum from argument i on; cur is current_max and
\* src the index of the argument it is bound to (0 for the -inf sentinel)
MaxScan(a, i, cur, src) ==
    IF i > Len(a) THEN Returned(cur, src)
    ELSE IF is_nan(a[i]) THEN Returned(a[i], i)
    ELSE IF Ge(a[i], cur) THEN MaxScan(a, i + 1, a[i], i)
    ELSE MaxScan(a, i + 1, cur, src)

RECURSIVE MinScan(_, _, _, _)
\* the FixedPoint loop of minimum from argument i on
MinScan(a, i, cur, src) ==
    IF i > Len(a) THEN Returned(cur, src)
    ELSE IF is_nan(a[i]) THEN Returned(a[i], i)
    ELSE IF Le(a[i], cur) THEN MinScan(a, i + 1, a[i], i)
    ELSE MinScan(a, i + 1, cur, src)

maximum(a) ==
    IF Len(a) = 0 THEN Raised("IndexError")
    ELSE IF a[1].variant \in {"float", "int"} THEN BuiltinMax(a)
    ELSE MaxScan(a, 1, NegInf("FixedPoint"), 0)

\* minimum with the scan started from the sentinel of maximum
minimum_wrong_sentinel(a) ==
    IF Len(a) = 0 THEN Raised("IndexError")
    ELSE IF a[1].variant \in {"int", "float"} THEN BuiltinMin(a)
    ELSE MinScan(a, 1, NegInf("FixedPoint"), 0)

minimum(a) ==
    IF Len(a) = 0 THEN Raised("IndexError")
    ELSE IF a[1].variant \in {"int", "float"} THEN BuiltinMin(a)
    ELSE MinScan(a, 1, PosInf("FixedPoint"), 0)

\* ---------------------------------------------------------------- clip, exp, isclose, sqrt
\* index among (x, low, high) of the object minimum(maximum(x, low), high) returns
ClipSrc(inner, outer) == IF outer.src = 1 THEN inner.src ELSE 3

\* clip with low and high exchanged in the two calls
clip_bounds_swapped(x, low, high) ==
    IF Gt(low, high) THEN Raised("ValueError")
    ELSE LET inner == maximum(<<x, high>>)
         IN  IF inner.tag = "raise" THEN inner
             ELSE LET outer == minimum(<<inner.val, low>>)
                  IN  IF outer.tag = "raise" THEN outer
                      ELSE Returned(outer.val, 0)

\* clip without the range test
clip_unchecked(x, low, high) ==
    LET inner == maximum(<<x, low>>)
    IN  IF inner.tag = "raise" THEN inner
        ELSE LET outer == minimum(<<inner.val, high>>)
             IN  IF outer.tag = "raise" THEN outer
                 ELSE Returned(outer.val, ClipSrc(inner, outer))

clip(x, low, high) ==
    IF Gt(low, high) THEN Raised("ValueError")
    ELSE LET inner == maximum(<<x, low>>)
         IN  IF inner.tag = "raise" THEN inner
             ELSE LET outer == minimum(<<inner.val, high>>)
                  IN  IF outer.tag = "raise" THEN outer
                      ELSE Returned(outer.val, ClipSrc(inner, outer))

\* exp without the isfinite test: the backend is given the raw value of any FixedPoint
exp_no_finite_test(x) ==
    IF x.variant = "FixedPoint" THEN
        [out |-> Returned(Finite("FixedPoint", FixedPointIntegerMath_exp(x.sv)), 0),
         backend |-> <<x.sv>>]
    ELSE [out |-> Ctor(x.variant, MathExp(ToFloat(x))), backend |-> <<>>]

\* the outcome of exp(x) and the scaled values handed to the integer-math backend
exp(x) ==
    IF x.variant = "FixedPoint" THEN
        IF ~isfinite(x) THEN [out |-> Returned(x, 1), backend |-> <<>>]
        ELSE [out |-> Returned(Finite("FixedPoint", FixedPointIntegerMath_exp(x.sv)), 0),
              backend |-> <<x.sv>>]
    ELSE [out |-> Ctor(x.variant, MathExp(ToFloat(x))), backend |-> <<>>]

\* isclose comparing a - b, not abs(a - b), with the tolerance
isclose_no_abs(a, b, abs_tol) ==
    IF ~isfinite(a) \/ ~isfinite(b) THEN ReturnedBool(Eq(a, b))
    ELSE IF ~isfinite(abs_tol) THEN Raised("ValueError")
    ELSE ReturnedBool(Le(Sub(a, b), abs_tol))

isclose(a, b, abs_tol) ==
    IF ~isfinite(a) \/ ~isfinite(b) THEN ReturnedBool(Eq(a, b))
    ELSE IF ~isfinite(abs_tol) THEN Raised("ValueError")
    ELSE ReturnedBool(Le(Abs(Sub(a, b)), abs_tol))

\* sqrt turning the domain error of math.sqrt into a NaN
sqrt_silent_nan(x) ==
    LET r == MathSqrt(ToFloat(x))
    IN  IF r.tag = "raise" THEN Ctor(x.variant, NaN("float")) ELSE Ctor(x.variant, r.val)

sqrt(x) ==
    LET r == MathSqrt(ToFloat(x))
    IN  IF r.tag = "raise" THEN r ELSE Ctor(x.variant, r.val)

\* ---------------------------------------------------------------- the calls
Ops == {"clip", "exp", "isclose", "maximum", "minimum", "sqrt"}

\* the argument lists a caller passes to an operation: numbers of one variant
Inputs(o) ==
    IF o \in {"clip", "isclose"} THEN UNION {[1..3 -> ValsOf(variant)] : variant \in Variants}
    ELSE IF o \in {"exp", "sqrt"} THEN UNION {[1..1 -> ValsOf(variant)] : variant \in Variants}
    ELSE UNION {ArgLists(variant) : variant \in Variants}

\* a caller has built its arguments and is about to call one of the functions
Init ==
    /\ pc = "call"
    /\ op \in Ops
    /\ args \in Inputs(op)
    /\ result = NoResult
    /\ backend_log = <<>>

CallClip ==
    /\ pc = "call"
    /\ op = "clip"
    /\ result' = clip(args[1], args[2], args[3])
    /\ pc' = "done"
    /\ UNCHANGED <<op, args, backend_log>>

CallExp ==
    /\ pc = "call"
    /\ op = "exp"
    /\ result' = exp(args[1]).out
    /\ backend_log' = exp(args[1]).backend
    /\ pc' = "done"
    /\ UNCHANGED <<op, args>>

CallIsclose ==
    /\ pc = "call"
    /\ op = "isclose"
    /\ result' = isclose(args[1], args[2], args[3])
    /\ pc' = "done"
    /\ UNCHANGED <<op, args, backend_log>>

CallMaximum ==
    /\ pc = "call"
    /\ op = "maximum"
    /\ result' = maximum(args)
    /\ pc' = "done"
    /\ UNCHANGED <<op, args, backend_log>>

CallMinimum ==
    /\ pc = "call"
    /\ op = "minimum"
    /\ result' = minimum(args)
    /\ pc' = "done"
    /\ UNCHANGED <<op, args, backend_log>>

CallSqrt ==
    /\ pc = "call"
    /\ op = "sqrt"
    /\ result' = sqrt(args[1])
    /\ pc' = "done"
    /\ UNCHANGED <<op, args, backend_log>>

Next ==
    \/ CallClip
    \/ CallExp
    \/ CallIsclose
    \/ CallMaximum
    \/ CallMinimum
    \/ CallSqrt

Spec == Init /\ [][Next]_vars

\* ---------------------------------------------------------------- shapes
TypeOK ==
    /\ pc \in {"call", "done"}
    /\ op \in Ops
    /\ result.tag \in {"none", "value", "bool", "raise"}
    /\ pc = "call" => result = NoResult
    /\ Len(backend_log) <= 1

\* ---------------------------------------------------------------- properties
Done(o) == pc = "done" /\ op = o

AllFinite == \A i \in 1..Len(args) : isfinite(args[i])

HasNaN == \E i \in 1..Len(args) : is_nan(args[i])

FirstNaN == CHOOSE i \in 1..Len(args) : is_nan(args[i]) /\ \A j \in 1..(i - 1) : ~is_nan(args[j])

IsFixedPointCall == Len(args) >= 1 /\ args[1].variant = "FixedPoint"

MinMaxDone == Done("maximum") \/ Done("minimum")

\* C1: for every variant and all finite x, low, high with low <= high,
\* clip(x, low, high) returns r with low <= r <= high, and r == x when
\* low <= x <= high.
C1_ClipWithinRange ==
    (Done("clip") /\ AllFinite /\ args[2].sv <= args[3].sv) =>
        /\ result.tag = "value"
        /\ result.val.variant = args[1].variant
        /\ isfinite(result.val)
        /\ args[2].sv <= result.val.sv
        /\ result.val.sv <= args[3].sv
        /\ (args[2].sv <= args[1].sv /\ args[1].sv <= args[3].sv) => result.val.sv = args[1].sv

\* a finite x below a proper range low < high was clipped up to low
C1_Witness ==
    /\ Done("clip")
    /\ AllFinite
    /\ args[1].sv < args[2].sv
    /\ args[2].sv < args[3].sv
    /\ result.tag = "value"
    /\ result.val.sv = args[2].sv

\* C2: clip(x, low, high) with low > high fails with ValueError and returns
\* no value, for every variant and every x, non-finite x and infinite
\* low / high included.
C2_ClipInvalidRange ==
    (Done("clip") /\ Gt(args[2], args[3])) => result = Raised("ValueError")

\* clip(NaN, +inf, -inf) on FixedPoint raised
C2_Witness ==
    /\ Done("clip")
    /\ args = <<NaN("FixedPoint"), PosInf("FixedPoint"), NegInf("FixedPoint")>>
    /\ result = Raised("ValueError")

\* C3: on FixedPoint argument lists of length >= 1, a NaN at any position
\* makes maximum and minimum return the first NaN of the left-to-right scan,
\* whatever the other arguments and their order.
C3_NaNDominates ==
    (MinMaxDone /\ IsFixedPointCall /\ HasNaN) =>
        /\ result.tag = "value"
        /\ is_nan(result.val)
        /\ result.src = FirstNaN

\* a NaN in last position behind +inf and a finite number was returned
C3_Witness ==
    /\ MinMaxDone
    /\ IsFixedPointCall
    /\ Len(args) = 3
    /\ args[1].kind = "inf"
    /\ isfinite(args[2])
    /\ is_nan(args[3])
    /\ result.tag = "value"
    /\ is_nan(result.val)
    /\ result.src = 3

\* C4: isclose(a, b, abs_tol) with a non-finite abs_tol fails with ValueError
\* for every a and b, finite or not; it never returns a boolean.
C4_NonFiniteTolAlwaysFails ==
    (Done("isclose") /\ ~isfinite(args[3])) => result = Raised("ValueError")

\* the reference result of isclose for a finite tolerance
IscloseReference ==
    IF ~isfinite(args[1]) \/ ~isfinite(args[2])
    THEN args[1].kind = args[2].kind /\ args[1].kind \in {"inf", "neginf"}
    ELSE LET d == args[1].sv - args[2].sv
         IN  (IF d < 0 THEN 0 - d ELSE d) <= args[3].sv

\* C5: for finite abs_tol, isclose(a, b, abs_tol) is a == b without tolerance
\* when a or b is non-finite (NaN vs NaN False, +inf vs +inf True, +inf vs
\* -inf False, inf vs NaN False) and abs(a - b) <= abs_tol otherwise, so
\* isclose(a, a, 0) is True for finite a.
C5_IscloseReference ==
    (Done("isclose") /\ isfinite(args[3])) =>
        /\ result.tag = "bool"
        /\ result.b = IscloseReference
        /\ (isfinite(args[1]) /\ args[2] = args[1] /\ args[3].sv = 0) => result.b

\* two different finite numbers were found close under a positive tolerance
C5_Witness ==
    /\ Done("isclose")
    /\ AllFinite
    /\ args[1].sv < args[2].sv
    /\ args[3].sv > 0
    /\ result = ReturnedBool(TRUE)

Perms(n) == {p \in [1..n -> 1..n] : \A i, j \in 1..n : p[i] = p[j] => i = j}

Permuted(p) == [i \in 1..Len(args) |-> args[p[i]]]

\* C6: on FixedPoint argument lists of length >= 1 without NaN, maximum
\* returns a value equal to one of the arguments and >= every argument,
\* minimum one equal to an argument and <= every argument, and the value
\* returned is the same for every permutation of the arguments.
C6_ExtremumOfArgs ==
    (MinMaxDone /\ IsFixedPointCall /\ ~HasNaN) =>
        /\ result.tag = "value"
        /\ \E i \in 1..Len(args) : result.val = args[i]
        /\ Done("maximum") => \A i \in 1..Len(args) : ~Lt(result.val, args[i])
        /\ Done("minimum") => \A i \in 1..Len(args) : ~Lt(args[i], result.val)
        /\ \A p \in Perms(Len(args)) :
               (IF op = "maximum" THEN maximum(Permuted(p)) ELSE minimum(Permuted(p))).val = result.val

\* minimum of a list mixing +inf, a finite number and -inf returned -inf
C6_Witness ==
    /\ Done("minimum")
    /\ IsFixedPointCall
    /\ Len(args) = 3
    /\ args[1].kind = "inf"
    /\ isfinite(args[2])
    /\ args[3].kind = "neginf"
    /\ result.tag = "value"
    /\ result.val = NegInf("FixedPoint")

\* C7: a single-argument call is accepted and is the identity for every value
\* of each variant: maximum(x) and minimum(x) return x without error.
C7_SingleArgIdentity ==
    (MinMaxDone /\ Len(args) = 1) =>
        /\ result.tag = "value"
        /\ result.val = args[1]

\* C8: sqrt(x) fails with ValueError for every negative finite x of any
\* variant and for FixedPoint -inf, returning no value; for FixedPoint NaN it
\* returns NaN and for FixedPoint +inf it returns +inf.
C8_SqrtDomain ==
    Done("sqrt") =>
        /\ (isfinite(args[1]) /\ args[1].sv < 0) => result = Raised("ValueError")
        /\ args[1] = NegInf("FixedPoint") => result = Raised("ValueError")
        /\ args[1] = NaN("FixedPoint") => (result.tag = "value" /\ result.val = NaN("FixedPoint"))
        /\ args[1] = PosInf("FixedPoint") => (result.tag = "value" /\ result.val = PosInf("FixedPoint"))

\* sqrt of FixedPoint -inf raised
C8_Witness ==
    /\ Done("sqrt")
    /\ args[1] = NegInf("FixedPoint")
    /\ result = Raised("ValueError")

\* C9: for a non-finite FixedPoint x, exp(x) returns x itself and the
\* integer-math backend is not invoked; for a finite FixedPoint x it returns
\* the FixedPoint whose scaled value is the backend's exp of x's scaled value.
C9_ExpFixedPoint ==
    (Done("exp") /\ IsFixedPointCall) =>
        /\ ~isfinite(args[1]) => (result = Returned(args[1], 1) /\ backend_log = <<>>)
        /\ isfinite(args[1]) =>
               /\ backend_log = <<args[1].sv>>
               /\ result.tag = "value"
               /\ result.val = Finite("FixedPoint", FixedPointIntegerMath_exp(args[1].sv))

\* exp(-inf) on FixedPoint returned -inf without a backend call
C9_Witness ==
    /\ Done("exp")
    /\ args[1] = NegInf("FixedPoint")
    /\ result.tag = "value"
    /\ result.val = NegInf("FixedPoint")
    /\ backend_log = <<>>

\* C10: in the FixedPoint scan of maximum and minimum, when several arguments
\* tie for the extremum the earliest of them in argument order is the one
\* retained and returned; when the first equals the second, the first is.
C10_EarliestTieRetained ==
    (MinMaxDone /\ IsFixedPointCall /\ ~HasNaN) =>
        /\ result.tag = "value"
        /\ result.src \in 1..Len(args)
        /\ \A j \in 1..(result.src - 1) : args[j] # result.val
====
